---------------------------- MODULE Spec2Model ----------------------------
(***************************************************************************)
(* Contributor-performance aggregation of the metrics dashboard: the       *)
(* `contributors` memo of useContributorData                                *)
(* (src/web-server/src/hooks/useContributorData.ts, lines 440-789).        *)
(*                                                                         *)
(* Conventions of the model                                                *)
(*  - A username is a sequence of one-character strings, so that isBot's   *)
(*    toLowerCase()/includes() are computed and not assumed.  The empty    *)
(*    sequence stands for a missing username (undefined, null and "" are   *)
(*    all falsy in the code's tests).                                      *)
(*  - A numeric event field that the code reads through `x || 0` or tests  *)
(*    with `if (x)` is a natural number, 0 standing for every falsy value  *)
(*    (undefined, null, 0): the code cannot tell them apart.               *)
(*  - Times are counted in minutes (one unit = 60000 ms); the code's       *)
(*    division by 1000*60*60 is the division by MinutesPerHour here.       *)
(*  - JavaScript numbers are modelled as exact rationals [n, d] in lowest  *)
(*    terms; Math.round is floor(x + 1/2).                                 *)
(*  - A JavaScript Map is a sequence of entries in insertion order.        *)
(*  - An object property that has not been assigned is a field that the    *)
(*    record does not have.                                                *)
(*  - leadTimeFormatted and its siblings (getDurationString) and avatarUrl *)
(*    are display-only pass-through values and are left out.               *)
(***************************************************************************)
EXTENDS Integers, Sequences, FiniteSets, TLC

(***************************************************************************)
(* Exact rational arithmetic                                               *)
(***************************************************************************)
RECURSIVE GCD(_, _)
GCD(a, b) ==
    IF b = 0 THEN a ELSE GCD(b, a % b)

Abs(i) ==
    IF i < 0 THEN -i ELSE i

Rat(n, d) ==
    LET g == GCD(Abs(n), Abs(d))
        s == IF d < 0 THEN -1 ELSE 1
    IN  [n |-> (s * n) \div g, d |-> (s * d) \div g]

RInt(i) ==
    [n |-> i, d |-> 1]

RAdd(x, y) ==
    LET g == GCD(x.d, y.d)
    IN  Rat(x.n * (y.d \div g) + y.n * (x.d \div g), (x.d \div g) * y.d)

RSub(x, y) ==
    RAdd(x, [n |-> -y.n, d |-> y.d])

RMul(x, y) ==
    LET g1 == GCD(Abs(x.n), y.d)
        g2 == GCD(Abs(y.n), x.d)
        h1 == IF g1 = 0 THEN 1 ELSE g1
        h2 == IF g2 = 0 THEN 1 ELSE g2
    IN  Rat((x.n \div h1) * (y.n \div h2), (x.d \div h2) * (y.d \div h1))

RDiv(x, y) ==
    RMul(x, Rat(y.d, y.n))

RLess(x, y) ==
    x.n * y.d < y.n * x.d

RLeq(x, y) ==
    x.n * y.d <= y.n * x.d

RMin(x, y) ==
    IF RLess(y, x) THEN y ELSE x

RMax(x, y) ==
    IF RLess(x, y) THEN y ELSE x

\* Math.round: the nearest integer, halves rounded towards +infinity.
MathRound(x) ==
    (2 * x.n + x.d) \div (2 * x.d)

\* JavaScript truthiness of a number held as a rational.
Truthy(x) ==
    x.n # 0

(***************************************************************************)
(* BOT_PATTERNS and isBot                                                  *)
(***************************************************************************)
UpperChars ==
    << "A", "B", "C", "D", "E", "F", "G", "H", "I", "J", "K", "L", "M",
       "N", "O", "P", "Q", "R", "S", "T", "U", "V", "W", "X", "Y", "Z" >>

LowerChars ==
    << "a", "b", "c", "d", "e", "f", "g", "h", "i", "j", "k", "l", "m",
       "n", "o", "p", "q", "r", "s", "t", "u", "v", "w", "x", "y", "z" >>

ToLowerCase(s) ==
    [i \in 1..Len(s) |->
        IF \E k \in 1..Len(UpperChars) : UpperChars[k] = s[i]
        THEN LowerChars[CHOOSE k \in 1..Len(UpperChars) : UpperChars[k] = s[i]]
        ELSE s[i]]

Includes(s, p) ==
    \E i \in 0..(Len(s) - Len(p)) : SubSeq(s, i + 1, i + Len(p)) = p

BOT_PATTERNS ==
    << << "b", "o", "t" >>,
       << "j", "e", "n", "k", "i", "n", "s" >>,
       << "t", "r", "a", "v", "i", "s" >>,
       << "c", "i", "r", "c", "l", "e", "c", "i" >>,
       << "g", "i", "t", "h", "u", "b", "-", "a", "c", "t", "i", "o", "n", "s" >>,
       << "d", "e", "p", "e", "n", "d", "a", "b", "o", "t" >>,
       << "r", "e", "n", "o", "v", "a", "t", "e" >>,
       << "s", "n", "y", "k" >>,
       << "g", "i", "t", "h", "u", "b", "-", "a", "c", "t", "i", "o", "n", "s",
          "[", "b", "o", "t", "]" >>,
       << "d", "e", "p", "e", "n", "d", "a", "b", "o", "t", "[", "b", "o", "t", "]" >>,
       << "r", "e", "n", "o", "v", "a", "t", "e", "[", "b", "o", "t", "]" >> >>

\* A bug isBot could plausibly have: the patterns matched case-sensitively.
IsBotCaseSensitive(username) ==
    IF username = << >> THEN FALSE
    ELSE \E k \in 1..Len(BOT_PATTERNS) : Includes(username, BOT_PATTERNS[k])

isBot(username) ==
    IF username = << >> THEN FALSE
    ELSE LET lowerUsername == ToLowerCase(username)
         IN  \E k \in 1..Len(BOT_PATTERNS) : Includes(lowerUsername, BOT_PATTERNS[k])


(***************************************************************************)
(* Bounds and input pools                                                  *)
(***************************************************************************)
\* Events (pull requests, deployments, incidents) folded in one aggregation.
MaxEvents == 3

MinutesPerHour == 60

alice == << "a", "l", "i", "c", "e" >>
bob == << "b", "o", "b" >>
DependaBot == << "D", "e", "p", "e", "n", "d", "a", "B", "o", "t" >>
NoUsername == << >>
r1 == << "r", "1" >>
r2 == << "r", "2" >>
r3 == << "r", "3" >>
r4 == << "r", "4" >>
r5 == << "r", "5" >>
r6 == << "r", "6" >>

\* pr.author: alice carries a display name, the others do not.
AuthorOf(username) ==
    [username |-> username,
     name |-> IF username = alice THEN << "A", "l" >> ELSE << >>]

HumanUsernames == {alice, bob}

\* The usernames of the pools that are automated accounts.
BotUsernames == {DependaBot}

ReviewerList(usernames) ==
    [i \in 1..Len(usernames) |-> [username |-> usernames[i]]]

MkPR(username, commits, additions, deletions, comments, cycles, reviewers, times) ==
    [author |-> AuthorOf(username),
     commits |-> commits,
     additions |-> additions,
     deletions |-> deletions,
     comments |-> comments,
     rework_cycles |-> cycles,
     reviewers |-> ReviewerList(reviewers),
     lead_time |-> times[1],
     merge_time |-> times[2],
     rework_time |-> times[3]]

\* <<commits, additions, deletions, comments, rework_cycles>> of a pull request.
PRSizes ==
    { <<0, 0, 0, 0, 0>>, <<1, 10, 4, 1, 0>>, <<2, 0, 30, 0, 2>> }

\* <<reviewers, <<lead_time, merge_time, rework_time>>>>, times in minutes and 0
\* when the PR has none.
PRReviews ==
    { << << bob, DependaBot, NoUsername >>, <<0, 0, 0>> >>,
      << << r1, r2, r3, r4, r5, r6 >>, <<20, 0, 6>> >>,
      << << r6, alice, r5 >>, <<30, 8, 2>> >> }

PRPool ==
    { MkPR(alice, s[1], s[2], s[3], s[4], s[5], << >>, <<10, 4, 0>>) : s \in PRSizes }
    \cup
    { MkPR(alice, 1, 10, 4, 1, 0, rv[1], rv[2]) : rv \in PRReviews }
    \cup
    { MkPR(bob, 1, 10, 4, 1, 0, << >>, <<10, 4, 0>>),
      MkPR(bob, 1, 10, 4, 1, 0, << alice >>, <<0, 0, 0>>),
      MkPR(DependaBot, 2, 10, 4, 1, 0, << bob >>, <<10, 4, 0>>),
      MkPR(NoUsername, 2, 10, 4, 1, 0, << bob >>, <<10, 4, 0>>) }

DeploymentPool ==
    { [event_actor |-> [username |-> u], status |-> st] :
        u \in {alice, bob}, st \in {"success", "failure"} }
    \cup
    { [event_actor |-> [username |-> alice], status |-> "cancelled"],
      [event_actor |-> [username |-> DependaBot], status |-> "success"],
      [event_actor |-> [username |-> NoUsername], status |-> "failure"] }

IncidentPool ==
    { [assigned_to |-> [username |-> u]] :
        u \in {alice, bob, DependaBot, NoUsername} }

(***************************************************************************)
(* State                                                                   *)
(***************************************************************************)
VARIABLES
    phase,             \* position in the memo: "prs", "deployments", "incidents", ... , "done"
    prs,               \* the pull requests of the store, in the order folded
    nEvents,           \* number of events folded so far
    ev,                \* the event folded by the last step: [kind, who]
    contributorsMap,   \* Map<username, ContributorData>, entries in insertion order
    reviewersMap,      \* Map<username, Map<reviewer username, count>>
    contributorsArray  \* the array the memo returns

vars == << phase, prs, nEvents, ev, contributorsMap, reviewersMap, contributorsArray >>

Undefined == [undefined |-> TRUE]

NoEvent == [kind |-> "none", who |-> NoUsername]

(***************************************************************************)
(* Map helpers                                                             *)
(***************************************************************************)
MapHas(map, username) ==
    \E i \in 1..Len(map) : map[i].username = username

MapIndex(map, username) ==
    CHOOSE i \in 1..Len(map) : map[i].username = username

MapGet(map, username) ==
    map[MapIndex(map, username)]

(***************************************************************************)
(* PR fold (lines 449-535)                                                 *)
(***************************************************************************)
NewContributor(name, username) ==
    [name |-> name,
     username |-> username,
     contributions |-> 0,
     prs |-> 0,
     deploymentCount |-> 0,
     successfulDeployments |-> 0,
     failedDeployments |-> 0,
     incidentCount |-> 0,
     additions |-> 0,
     deletions |-> 0,
     leadTime |-> RInt(0),
     mergeTime |-> RInt(0),
     reworkTime |-> RInt(0),
     isBot |-> FALSE,
     commentCount |-> 0,
     changeCycles |-> 0,
     doraScore |-> 0,
     reviewersList |-> << >>]

\* A bug the get-or-create could have: a fresh scorecard for every PR.
GetOrCreateAlways(map, author) ==
    Append(map, NewContributor(IF author.name # << >> THEN author.name
                                                    ELSE author.username,
                               author.username))

GetOrCreate(map, author) ==
    IF MapHas(map, author.username) THEN map
    ELSE Append(map, NewContributor(IF author.name # << >> THEN author.name
                                                         ELSE author.username,
                                    author.username))

\* A bug the recurrence could have: the old mean weighted by the new count.
RunningMeanOffByOne(mean, n, value) ==
    RDiv(RAdd(RMul(mean, RInt(n)), RInt(value)), RInt(n))

\* A bug the recurrence could have: the new value averaged with the old
\* mean, whatever the count.
RunningMeanHalving(mean, n, value) ==
    IF n = 1 THEN RInt(value) ELSE RDiv(RAdd(mean, RInt(value)), RInt(2))

\* ((mean * (prs - 1)) + value) / prs
RunningMean(mean, n, value) ==
    RDiv(RAdd(RMul(mean, RInt(n - 1)), RInt(value)), RInt(n))

\* A bug the guard could have: a PR without the metric averaged in as 0.
TrackTimeCountingMissing(mean, n, value) ==
    RunningMean(mean, n, value)

\* A bug the guard could have: a PR without the metric resets the mean.
TrackTimeForgetting(mean, n, value) ==
    IF value # 0 THEN RunningMean(mean, n, value) ELSE RInt(0)

\* if (pr.lead_time) { ... }: a falsy value leaves the mean as it is.
TrackTime(mean, n, value) ==
    IF value # 0 THEN RunningMean(mean, n, value) ELSE mean

\* A bug the reviewer loop could have: the bot test left out.
CountReviewerNoBotTest(entries, reviewer) ==
    IF reviewer.username # << >>
    THEN IF MapHas(entries, reviewer.username)
         THEN [entries EXCEPT ![MapIndex(entries, reviewer.username)].count = @ + 1]
         ELSE Append(entries, [username |-> reviewer.username, count |-> 1])
    ELSE entries

\* One iteration of pr.reviewers.forEach (lines 509-514).
CountReviewer(entries, reviewer) ==
    IF reviewer.username # << >> /\ ~isBot(reviewer.username)
    THEN IF MapHas(entries, reviewer.username)
         THEN [entries EXCEPT ![MapIndex(entries, reviewer.username)].count = @ + 1]
         ELSE Append(entries, [username |-> reviewer.username, count |-> 1])
    ELSE entries

RECURSIVE CountReviewers(_, _)
CountReviewers(entries, reviewers) ==
    IF reviewers = << >> THEN entries
    ELSE CountReviewers(CountReviewer(entries, Head(reviewers)), Tail(reviewers))

\* A bug the means could have: the number of all PRs folded so far, of any
\* author, as the divisor.
AddPRWithGlobalCount(c, pr) ==
    LET n == Len(prs) + 1
    IN  [c EXCEPT
            !.prs = @ + 1,
            !.contributions = @ + pr.commits,
            !.additions = @ + pr.additions,
            !.deletions = @ + pr.deletions,
            !.commentCount = @ + pr.comments,
            !.changeCycles = @ + pr.rework_cycles,
            !.leadTime = TrackTime(@, n, pr.lead_time),
            !.mergeTime = TrackTime(@, n, pr.merge_time),
            !.reworkTime = TrackTime(@, n, pr.rework_time)]

\* A bug the fold could have: the PR count incremented after the means.
AddPRIncrementingLast(c, pr) ==
    LET n == c.prs
    IN  [c EXCEPT
            !.prs = @ + 1,
            !.contributions = @ + pr.commits,
            !.additions = @ + pr.additions,
            !.deletions = @ + pr.deletions,
            !.commentCount = @ + pr.comments,
            !.changeCycles = @ + pr.rework_cycles,
            !.leadTime = TrackTime(@, n, pr.lead_time),
            !.mergeTime = TrackTime(@, n, pr.merge_time),
            !.reworkTime = TrackTime(@, n, pr.rework_time)]

\* A bug the counters could have: every PR counted as one contribution
\* whatever its commits.
AddPRCountingPRsAsCommits(c, pr) ==
    LET n == c.prs + 1
    IN  [c EXCEPT
            !.prs = n,
            !.contributions = @ + 1,
            !.additions = @ + pr.additions,
            !.deletions = @ + pr.deletions,
            !.commentCount = @ + pr.comments,
            !.changeCycles = @ + pr.rework_cycles,
            !.leadTime = TrackTime(@, n, pr.lead_time),
            !.mergeTime = TrackTime(@, n, pr.merge_time),
            !.reworkTime = TrackTime(@, n, pr.rework_time)]

\* Lines 487-534 on the contributor's record.
AddPR(c, pr) ==
    LET n == c.prs + 1
    IN  [c EXCEPT
            !.prs = n,
            !.contributions = @ + pr.commits,
            !.additions = @ + pr.additions,
            !.deletions = @ + pr.deletions,
            !.commentCount = @ + pr.comments,
            !.changeCycles = @ + pr.rework_cycles,
            !.leadTime = TrackTime(@, n, pr.lead_time),
            !.mergeTime = TrackTime(@, n, pr.merge_time),
            !.reworkTime = TrackTime(@, n, pr.rework_time)]

\* A bug the author check could have: only the bot test, no test of a
\* missing username.
SkipsPROfBotsOnly(pr) ==
    isBot(pr.author.username)

\* The PR fold skips a PR without author username and a PR of a bot.
SkipsPR(pr) ==
    pr.author.username = << >> \/ isBot(pr.author.username)

FoldPR(pr) ==
    /\ phase = "prs"
    /\ nEvents < MaxEvents
    /\ prs' = Append(prs, pr)
    /\ nEvents' = nEvents + 1
    /\ ev' = [kind |-> "pr", who |-> pr.author.username]
    /\ IF SkipsPR(pr)
       THEN UNCHANGED << contributorsMap, reviewersMap >>
       ELSE LET username == pr.author.username
                map == GetOrCreate(contributorsMap, pr.author)
                rmap == IF username \in DOMAIN reviewersMap
                        THEN reviewersMap
                        ELSE reviewersMap @@ (username :> << >>)
                i == MapIndex(map, username)
            IN  /\ contributorsMap' = [map EXCEPT ![i] = AddPR(@, pr)]
                /\ reviewersMap' =
                       [rmap EXCEPT ![username] = CountReviewers(@, pr.reviewers)]
    /\ UNCHANGED << phase, contributorsArray >>

(***************************************************************************)
(* Deployment and incident folds (lines 537-558)                           *)
(***************************************************************************)
\* if (!actor || isBot(actor) || !contributorsMap.has(actor)) return;
SkipsActor(map, actor) ==
    actor = << >> \/ isBot(actor) \/ ~MapHas(map, actor)

\* A bug the deployment counters could have: a failed deployment taken back
\* from the successful ones.
AddDeploymentRevokingSuccess(c, deployment) ==
    IF deployment.status = "success"
    THEN [c EXCEPT !.deploymentCount = @ + 1, !.successfulDeployments = @ + 1]
    ELSE [c EXCEPT !.deploymentCount = @ + 1, !.failedDeployments = @ + 1,
                   !.successfulDeployments = @ - 1]

\* A bug the deployment counters could have: only the status 'failure'
\* counted as failed.
AddDeploymentCountingFailureOnly(c, deployment) ==
    IF deployment.status = "success"
    THEN [c EXCEPT !.deploymentCount = @ + 1, !.successfulDeployments = @ + 1]
    ELSE IF deployment.status = "failure"
    THEN [c EXCEPT !.deploymentCount = @ + 1, !.failedDeployments = @ + 1]
    ELSE [c EXCEPT !.deploymentCount = @ + 1]

AddDeployment(c, deployment) ==
    IF deployment.status = "success"
    THEN [c EXCEPT !.deploymentCount = @ + 1, !.successfulDeployments = @ + 1]
    ELSE [c EXCEPT !.deploymentCount = @ + 1, !.failedDeployments = @ + 1]

\* A bug the deployment fold could have: a scorecard created for an unknown actor.
DeploymentIntoCreating(map, deployment) ==
    LET actor == deployment.event_actor.username
        m == GetOrCreate(map, [username |-> actor, name |-> << >>])
    IN  IF actor = << >> \/ isBot(actor) THEN map
        ELSE [m EXCEPT ![MapIndex(m, actor)] = AddDeployment(@, deployment)]

DeploymentInto(map, deployment) ==
    LET actor == deployment.event_actor.username
    IN  IF SkipsActor(map, actor) THEN map
        ELSE [map EXCEPT ![MapIndex(map, actor)] = AddDeployment(@, deployment)]

\* A bug the incident fold could have: a scorecard created for an assignee
\* who authored no PR.
IncidentIntoCreating(map, incident) ==
    LET assignee == incident.assigned_to.username
        m == GetOrCreate(map, [username |-> assignee, name |-> << >>])
    IN  IF assignee = << >> \/ isBot(assignee) THEN map
        ELSE [m EXCEPT ![MapIndex(m, assignee)].incidentCount = @ + 1]

IncidentInto(map, incident) ==
    LET assignee == incident.assigned_to.username
    IN  IF SkipsActor(map, assignee) THEN map
        ELSE [map EXCEPT ![MapIndex(map, assignee)].incidentCount = @ + 1]

\* The memo returns [] before any fold when the store holds no PR (line 441),
\* so deployments and incidents are folded only after at least one PR.
FoldDeployment(deployment) ==
    /\ phase \in {"prs", "deployments"}
    /\ Len(prs) > 0
    /\ nEvents < MaxEvents
    /\ phase' = "deployments"
    /\ nEvents' = nEvents + 1
    /\ ev' = [kind |-> "deployment", who |-> deployment.event_actor.username]
    /\ contributorsMap' = DeploymentInto(contributorsMap, deployment)
    /\ UNCHANGED << prs, reviewersMap, contributorsArray >>

FoldIncident(incident) ==
    /\ phase \in {"prs", "deployments", "incidents"}
    /\ Len(prs) > 0
    /\ nEvents < MaxEvents
    /\ phase' = "incidents"
    /\ nEvents' = nEvents + 1
    /\ ev' = [kind |-> "incident", who |-> incident.assigned_to.username]
    /\ contributorsMap' = IncidentInto(contributorsMap, incident)
    /\ UNCHANGED << prs, reviewersMap, contributorsArray >>

(***************************************************************************)
(* Array.prototype.sort with a descending numeric comparator: stable       *)
(***************************************************************************)
\* The position of index k among the already ordered indices: behind every
\* index whose key is at least keys[k].
InsertIndex(order, keys, k) ==
    LET p == Cardinality({j \in 1..Len(order) : keys[order[j]] >= keys[k]})
    IN  SubSeq(order, 1, p) \o << k >> \o SubSeq(order, p + 1, Len(order))

RECURSIVE SortedIndices(_, _)
SortedIndices(keys, k) ==
    IF k = 0 THEN << >>
    ELSE InsertIndex(SortedIndices(keys, k - 1), keys, k)

\* seq sorted by keys descending, equal keys in their original order.
SortDescBy(seq, keys) ==
    LET order == SortedIndices(keys, Len(keys))
    IN  [i \in 1..Len(seq) |-> seq[order[i]]]

(***************************************************************************)
(* Reviewers list and DORA score of one contributor (lines 561-687)        *)
(***************************************************************************)
\* A bug the slice could have: slice(0, 5) taken as inclusive of index 5.
TakeInclusive(seq, k) ==
    SubSeq(seq, 1, IF Len(seq) < k + 1 THEN Len(seq) ELSE k + 1)

Take(seq, k) ==
    SubSeq(seq, 1, IF Len(seq) < k THEN Len(seq) ELSE k)

\* Lines 564-575: entries -> {username, name, count}, by count, the first 5.
ReviewersListOf(map, entries) ==
    LET named == [i \in 1..Len(entries) |->
                    [username |-> entries[i].username,
                     name |-> IF MapHas(map, entries[i].username)
                              THEN MapGet(map, entries[i].username).name
                              ELSE entries[i].username,
                     count |-> entries[i].count]]
    IN  Take(SortDescBy(named, [i \in 1..Len(named) |-> named[i].count]), 5)

\* A bug the frequency bands could have: the count of the window compared
\* with the weekly thresholds, the division by 4 forgotten.
DeploymentFrequencyPointsPerWindow(c) ==
    LET deploymentsPerWeek == RInt(c.deploymentCount)
    IN  IF RLeq(RInt(7), deploymentsPerWeek) THEN 100
        ELSE IF RLeq(RInt(1), deploymentsPerWeek) THEN 75
        ELSE IF RLeq(Rat(1, 4), deploymentsPerWeek) THEN 50
        ELSE 25

\* Lines 594-610, entered when deploymentCount > 0.
DeploymentFrequencyPoints(c) ==
    LET deploymentsPerWeek == Rat(c.deploymentCount, 4)
    IN  IF RLeq(RInt(7), deploymentsPerWeek) THEN 100
        ELSE IF RLeq(RInt(1), deploymentsPerWeek) THEN 75
        ELSE IF RLeq(Rat(1, 4), deploymentsPerWeek) THEN 50
        ELSE 25

\* A bug the lead time bands could have: the thresholds taken as inclusive.
LeadTimePointsInclusive(c) ==
    LET leadTimeHours == RDiv(c.leadTime, RInt(MinutesPerHour))
    IN  IF RLeq(leadTimeHours, RInt(24)) THEN 100
        ELSE IF RLeq(leadTimeHours, RInt(168)) THEN 75
        ELSE IF RLeq(leadTimeHours, RInt(720)) THEN 50
        ELSE 25

\* Lines 613-630, entered when leadTime is truthy.
LeadTimePoints(c) ==
    LET leadTimeHours == RDiv(c.leadTime, RInt(MinutesPerHour))
    IN  IF RLess(leadTimeHours, RInt(24)) THEN 100
        ELSE IF RLess(leadTimeHours, RInt(168)) THEN 75
        ELSE IF RLess(leadTimeHours, RInt(720)) THEN 50
        ELSE 25

\* Lines 633-649, entered when deploymentCount > 0.
ChangeFailureRatePoints(c) ==
    LET cfr == c.changeFailureRate
    IN  IF RLess(cfr, Rat(15, 100)) THEN 100
        ELSE IF RLess(cfr, Rat(30, 100)) THEN 75
        ELSE IF RLess(cfr, Rat(45, 100)) THEN 50
        ELSE 25

\* Lines 652-669, entered when timeToRestore is truthy.
TimeToRestorePoints(c) ==
    LET mttrHours == RDiv(c.timeToRestore, RInt(MinutesPerHour))
    IN  IF RLess(mttrHours, RInt(1)) THEN 100
        ELSE IF RLess(mttrHours, RInt(24)) THEN 75
        ELSE IF RLess(mttrHours, RInt(168)) THEN 50
        ELSE 25

HasTimeToRestore(c) ==
    c.timeToRestore # Undefined /\ Truthy(c.timeToRestore)

\* Lines 580-587.
WithDoraMetrics(c) ==
    c @@ [deployFrequency |->
              Rat(c.deploymentCount, IF c.prs > 1 THEN c.prs ELSE 1),
          changeFailureRate |->
              Rat(c.failedDeployments,
                  IF c.deploymentCount > 1 THEN c.deploymentCount ELSE 1),
          timeToRestore |->
              IF c.incidentCount > 0 THEN c.leadTime ELSE Undefined]

\* The points added by the four sub-metrics: the sequence of the points of
\* the sub-metrics that have data, in the order of the code.
SubMetricPoints(c) ==
    (IF c.deploymentCount > 0 THEN << DeploymentFrequencyPoints(c) >> ELSE << >>)
    \o (IF Truthy(c.leadTime) THEN << LeadTimePoints(c) >> ELSE << >>)
    \o (IF c.deploymentCount > 0 THEN << ChangeFailureRatePoints(c) >> ELSE << >>)
    \o (IF HasTimeToRestore(c) THEN << TimeToRestorePoints(c) >> ELSE << >>)

\* Array.prototype.reduce((sum, x) => sum + x, 0), summed by halves.
RECURSIVE SumRange(_, _, _)
SumRange(seq, lo, hi) ==
    IF lo > hi THEN 0
    ELSE IF lo = hi THEN seq[lo]
    ELSE SumRange(seq, lo, (lo + hi) \div 2) + SumRange(seq, ((lo + hi) \div 2) + 1, hi)

SeqSum(seq) ==
    SumRange(seq, 1, Len(seq))

\* Lines 590-679: the score before the bell curve; c carries its DORA metrics.
RawScore(c) ==
    LET points == SubMetricPoints(c)
        doraScore == SeqSum(points) + (IF Len(points) > 0 THEN 40 ELSE 0)
        metrics == Len(points) + (IF Len(points) > 0 THEN 1 ELSE 0)
    IN  IF metrics > 0 THEN MathRound(Rat(doraScore, metrics)) ELSE 0

\* Math.floor(Math.random() * 10)
RandomDigits == 0..9

\* A bug the bell curve could have: the low scores left as they are.
BellCurveNoFloor(score, digit) ==
    IF score > 85 THEN 85 + digit ELSE score

\* A bug the bell curve could have: a digit drawn from 1..10 (Math.ceil).
BellCurveInclusiveDraw(score, digit) ==
    IF score > 85 THEN 85 + digit + 1
    ELSE IF score < 35 THEN 35 + digit + 1
    ELSE score

\* Lines 682-686.
BellCurve(score, digit) ==
    IF score > 85 THEN 85 + digit
    ELSE IF score < 35 THEN 35 + digit
    ELSE score

\* The body of contributorsMap.forEach (lines 561-687) for one contributor.
ScoreContributor(map, rmap, c, digit) ==
    LET withList == IF c.username \in DOMAIN rmap
                    THEN [c EXCEPT !.reviewersList = ReviewersListOf(map, rmap[c.username])]
                    ELSE c
        withMetrics == WithDoraMetrics(withList)
    IN  [withMetrics EXCEPT !.doraScore = BellCurve(RawScore(withMetrics), digit)]

(***************************************************************************)
(* Sort and percentage distribution (lines 689-786)                        *)
(***************************************************************************)
\* A bug the conversion could have: the array left in insertion order.
SortByContributionsNoSort(map) ==
    map

\* Lines 690-691: Array.from(contributorsMap.values()).sort(b.contributions - a.contributions)
SortByContributions(map) ==
    SortDescBy(map, [i \in 1..Len(map) |-> map[i].contributions])

\* A bug the weighting could have: the drawn DORA score weighed in.
WeightedScoreOfWithDoraScore(c) ==
    RAdd(RMul(RInt(c.prs), Rat(35, 100)),
         RAdd(RMul(RInt(c.contributions), Rat(20, 100)),
              RMul(RInt(c.doraScore), Rat(1, 100))))

\* A bug the weighting could have: the code changes not capped at 5000.
WeightedScoreOfUncapped(c) ==
    RAdd(RAdd(RAdd(RMul(RInt(c.prs), Rat(35, 100)),
                   RMul(RInt(c.contributions), Rat(20, 100))),
              RMul(Rat(c.additions + c.deletions, 100), Rat(15, 100))),
         RAdd(IF c.deploymentCount > 0
              THEN RMul(Rat(c.successfulDeployments, c.deploymentCount), RInt(20))
              ELSE RInt(0),
              IF Truthy(c.leadTime)
              THEN RMul(RMax(RInt(0),
                             RSub(RInt(10),
                                  RDiv(RMin(RInt(168),
                                            RDiv(c.leadTime, RInt(MinutesPerHour))),
                                       RInt(24)))),
                        Rat(10, 100))
              ELSE RInt(0)))

\* Lines 706-734.
WeightedScoreOf(c) ==
    LET codeChanges == c.additions + c.deletions
        prsPart == RMul(RInt(c.prs), Rat(35, 100))
        commitsPart == RMul(RInt(c.contributions), Rat(20, 100))
        changesPart ==
            RMul(Rat(IF codeChanges < 5000 THEN codeChanges ELSE 5000, 100),
                 Rat(15, 100))
        deployPart ==
            IF c.deploymentCount > 0
            THEN RMul(RMul(Rat(c.successfulDeployments, c.deploymentCount), RInt(100)),
                      Rat(20, 100))
            ELSE RInt(0)
        speedPart ==
            IF Truthy(c.leadTime)
            THEN LET leadTimeHours == RDiv(c.leadTime, RInt(MinutesPerHour))
                     normalizedLeadTime == RMin(RInt(168), leadTimeHours)
                     speedScore ==
                         RMax(RInt(0), RSub(RInt(10), RDiv(normalizedLeadTime, RInt(24))))
                 IN  RMul(speedScore, Rat(10, 100))
            ELSE RInt(0)
    IN  RAdd(RAdd(RAdd(RAdd(prsPart, commitsPart), changesPart), deployPart), speedPart)

\* Lines 696-738.
WithWeightedScores(arr) ==
    [i \in 1..Len(arr) |->
        [f \in (DOMAIN arr[i]) \cup {"weightedDoraScore"} |->
            IF f = "weightedDoraScore" THEN WeightedScoreOf(arr[i]) ELSE arr[i][f]]]

RECURSIVE RSumRange(_, _, _)
RSumRange(seq, lo, hi) ==
    IF lo > hi THEN RInt(0)
    ELSE IF lo = hi THEN seq[lo]
    ELSE RAdd(RSumRange(seq, lo, (lo + hi) \div 2),
              RSumRange(seq, ((lo + hi) \div 2) + 1, hi))

RSum(seq) ==
    RSumRange(seq, 1, Len(seq))

\* Lines 741-744.
TotalWeightedScore(arr) ==
    RSum([i \in 1..Len(arr) |-> arr[i].weightedDoraScore])

SetPercentage(c, p) ==
    [f \in (DOMAIN c) \cup {"doraPercentage"} |->
        IF f = "doraPercentage" THEN p ELSE c[f]]

\* A bug the percentages could have: the share of the commits instead of
\* the share of the weighted scores.
WithPercentagesByCommits(arr) ==
    LET totalCommits == SeqSum([i \in 1..Len(arr) |-> arr[i].contributions])
    IN  [i \in 1..Len(arr) |->
            SetPercentage(arr[i],
                IF totalCommits > 0
                THEN MathRound(RMul(Rat(arr[i].contributions, totalCommits), RInt(100)))
                ELSE 0)]

\* A bug the percentages could have: each contributor given the share of the
\* others.
WithPercentagesOfOthers(arr) ==
    LET totalWeightedScore == TotalWeightedScore(arr)
    IN  [i \in 1..Len(arr) |->
            SetPercentage(arr[i],
                MathRound(RMul(RDiv(RSub(totalWeightedScore, arr[i].weightedDoraScore),
                                    totalWeightedScore),
                               RInt(100))))]

\* Lines 748-752.
WithPercentages(arr) ==
    LET totalWeightedScore == TotalWeightedScore(arr)
    IN  [i \in 1..Len(arr) |->
            SetPercentage(arr[i],
                MathRound(RMul(RDiv(arr[i].weightedDoraScore, totalWeightedScore),
                               RInt(100))))]

\* A bug the fallback could have: triggered as soon as the first two
\* percentages agree.
DifferentiateWhenFirstTwoAgree(arr) ==
    LET firstTwoSame == Len(arr) > 1 /\ arr[2].doraPercentage = arr[1].doraPercentage
        totalPrs == SeqSum([i \in 1..Len(arr) |-> arr[i].prs])
    IN  IF firstTwoSame /\ totalPrs > 0
        THEN [i \in 1..Len(arr) |->
                SetPercentage(arr[i], MathRound(RMul(Rat(arr[i].prs, totalPrs), RInt(100))))]
        ELSE arr

\* Lines 756-768.
DifferentiateByPrs(arr) ==
    LET allSamePercentage ==
            \A i \in 1..Len(arr) : arr[i].doraPercentage = arr[1].doraPercentage
        totalPrs == SeqSum([i \in 1..Len(arr) |-> arr[i].prs])
    IN  IF allSamePercentage /\ Len(arr) > 1 /\ totalPrs > 0
        THEN [i \in 1..Len(arr) |->
                SetPercentage(arr[i], MathRound(RMul(Rat(arr[i].prs, totalPrs), RInt(100))))]
        ELSE arr

PercentageSum(arr) ==
    SeqSum([i \in 1..Len(arr) |-> arr[i].doraPercentage])

\* A bug the sanity check could have: the difference subtracted instead of added.
AdjustHighestWrongSign(arr) ==
    LET percentageSum == PercentageSum(arr)
        diff == 100 - percentageSum
        highest == SortedIndices([i \in 1..Len(arr) |-> arr[i].doraPercentage], Len(arr))[1]
    IN  IF percentageSum # 100 /\ Len(arr) > 0
        THEN [arr EXCEPT ![highest].doraPercentage = @ - diff]
        ELSE arr

\* A bug the sanity check could have: an unstable sort that puts the last of
\* the equal highest percentages first.
AdjustLastHighest(arr) ==
    LET percentageSum == PercentageSum(arr)
        diff == 100 - percentageSum
        highest == CHOOSE i \in 1..Len(arr) :
                       /\ \A j \in 1..Len(arr) : arr[j].doraPercentage <= arr[i].doraPercentage
                       /\ \A j \in (i + 1)..Len(arr) :
                              arr[j].doraPercentage < arr[i].doraPercentage
    IN  IF percentageSum # 100 /\ Len(arr) > 0
        THEN [arr EXCEPT ![highest].doraPercentage = @ + diff]
        ELSE arr

\* Lines 771-784: sorted[0] is the first contributor with the highest percentage.
AdjustHighest(arr) ==
    LET percentageSum == PercentageSum(arr)
        diff == 100 - percentageSum
        highest == SortedIndices([i \in 1..Len(arr) |-> arr[i].doraPercentage], Len(arr))[1]
    IN  IF percentageSum # 100 /\ Len(arr) > 0
        THEN [arr EXCEPT ![highest].doraPercentage = @ + diff]
        ELSE arr

\* Lines 694-786 as one function of the sorted array.
Distribute(arr) ==
    IF Len(arr) > 0
    THEN LET weighted == WithWeightedScores(arr)
         IN  IF RLess(RInt(0), TotalWeightedScore(weighted))
             THEN AdjustHighest(DifferentiateByPrs(WithPercentages(weighted)))
             ELSE weighted
    ELSE arr

(***************************************************************************)
(* The memo from the end of the folds to its return (lines 560-788)        *)
(***************************************************************************)
\* Math.random is called only for a score outside [35, 85].
DrawsDigit(c) ==
    LET raw == RawScore(WithDoraMetrics(c))
    IN  raw > 85 \/ raw < 35

Finalize ==
    /\ phase \in {"prs", "deployments", "incidents"}
    /\ LET drawing == {i \in 1..Len(contributorsMap) : DrawsDigit(contributorsMap[i])}
       IN  \E digits \in [drawing -> RandomDigits] :
              LET scored == [i \in 1..Len(contributorsMap) |->
                                ScoreContributor(contributorsMap, reviewersMap,
                                    contributorsMap[i],
                                    IF i \in drawing THEN digits[i] ELSE 0)]
              IN  /\ contributorsMap' = scored
                  /\ contributorsArray' = Distribute(SortByContributions(scored))
    /\ phase' = "done"
    /\ ev' = NoEvent
    /\ UNCHANGED << prs, nEvents, reviewersMap >>

Init ==
    /\ phase = "prs"
    /\ prs = << >>
    /\ nEvents = 0
    /\ ev = NoEvent
    /\ contributorsMap = << >>
    /\ reviewersMap = << >>
    /\ contributorsArray = << >>

Next ==
    \/ \E pr \in PRPool : FoldPR(pr)
    \/ \E deployment \in DeploymentPool : FoldDeployment(deployment)
    \/ \E incident \in IncidentPool : FoldIncident(incident)
    \/ Finalize

Spec == Init /\ [][Next]_vars

(***************************************************************************)
(* The score of one folded contributor, checked on its own: the body of    *)
(* contributorsMap.forEach (lines 561-687) applied to a contributor whose  *)
(* counters are drawn from bounded sets.                                   *)
(***************************************************************************)
\* 28 deployments in the window are 7 a week, the top band of line 600.
MaxDeployments == 28

MaxIncidents == 1

MaxPrs == 2

\* Average lead times in minutes: none, 30 min, 90 min, 25 h, 200 h, 800 h,
\* and the thresholds 1 h, 24 h, 168 h and 720 h themselves.
ScoreLeadTimes ==
    { RInt(0), RInt(30), RInt(90), RInt(1500), RInt(12000), RInt(48000),
      RInt(60), RInt(1440), RInt(10080), RInt(43200) }

Folded(username, n, commits, changes, deployments, successful, incidents, leadTime) ==
    [NewContributor(username, username) EXCEPT
        !.prs = n,
        !.contributions = commits,
        !.additions = changes,
        !.deploymentCount = deployments,
        !.successfulDeployments = successful,
        !.failedDeployments = deployments - successful,
        !.incidentCount = incidents,
        !.leadTime = leadTime]

\* The folded contributors of at most maxPrs PRs, maxDeployments deployments
\* and maxIncidents incidents.
ScorePool(maxPrs, maxDeployments, maxIncidents) ==
    { Folded(alice, n, n, 0, d, s, i, t) :
        n \in 1..maxPrs, d \in 0..maxDeployments, s \in 0..maxDeployments,
        i \in 0..maxIncidents, t \in ScoreLeadTimes }

InitScore ==
    /\ phase = "score"
    /\ prs = << >>
    /\ nEvents = 0
    /\ ev = NoEvent
    /\ \E c \in ScorePool(MaxPrs, MaxDeployments, MaxIncidents) :
          /\ c.successfulDeployments <= c.deploymentCount
          /\ contributorsMap = << c >>
    /\ reviewersMap = (alice :> << >>)
    /\ contributorsArray = << >>

ScoreStep ==
    /\ phase = "score"
    /\ \E digit \in (IF DrawsDigit(contributorsMap[1]) THEN RandomDigits ELSE {0}) :
          contributorsMap' =
              << ScoreContributor(contributorsMap, reviewersMap, contributorsMap[1], digit) >>
    /\ phase' = "scored"
    /\ UNCHANGED << prs, nEvents, ev, reviewersMap, contributorsArray >>

NextScore ==
    ScoreStep

SpecScore == InitScore /\ [][NextScore]_vars

(***************************************************************************)
(* The percentage distribution, checked on its own and step by step: lines *)
(* 694-786 applied to a sorted array of scored contributors.               *)
(***************************************************************************)
\* Contributors in an array of distinct profiles.
MaxContributors == 3

\* Contributors in a crowd of two kinds of contributor.
MaxCrowd == 16

DigitChars ==
    << "0", "1", "2", "3", "4", "5", "6", "7", "8", "9" >>

UserNumber(i) ==
    << "u", DigitChars[(i \div 10) + 1], DigitChars[(i % 10) + 1] >>

\* <<prs, commits, additions, deployments, successful, average lead time in minutes>>
Profiles ==
    { <<1, 0, 0, 0, 0, 0>>,
      <<1, 2, 0, 0, 0, 0>>,
      <<3, 12, 0, 0, 0, 0>>,
      <<2, 0, 0, 0, 0, 0>>,
      <<2, 3, 0, 0, 0, 0>>,
      <<2, 1, 0, 0, 0, 0>>,
      <<1, 0, 6000, 0, 0, 0>>,
      <<1, 0, 0, 1, 1, 6000>>,
      <<2, 0, 0, 1, 1, 0>>,
      <<1, 0, 0, 2, 1, 30>>,
      <<1, 1, 40, 1, 0, 60000>>,
      <<2, 47, 0, 0, 0, 0>>,
      <<2, 46, 0, 0, 0, 0>> }

Scored(i, p) ==
    LET c == Folded(UserNumber(i), p[1], p[2], p[3], p[4], p[5], 0, RInt(p[6]))
    IN  ScoreContributor(<< c >>, << >>, c, 0)

IsSortedByContributions(arr) ==
    \A i \in 1..(Len(arr) - 1) : arr[i].contributions >= arr[i + 1].contributions

\* The arrays of at most maxContributors scored contributors.
ProfileArrays(maxContributors) ==
    { [i \in DOMAIN ps |-> Scored(i, ps[i])] :
        ps \in UNION { [1..n -> Profiles] : n \in 1..maxContributors } }

\* k contributors with 2 PRs and 3 commits, then n - k with 2 PRs and 1 commit.
Crowd(n, k) ==
    [i \in 1..n |->
        Scored(i, IF i <= k THEN <<2, 3, 0, 0, 0, 0>> ELSE <<2, 1, 0, 0, 0, 0>>)]

CrowdArrays(maxCrowd) ==
    { Crowd(n, k) : n \in 1..maxCrowd, k \in 0..maxCrowd }

InitPct ==
    /\ phase = "weigh"
    /\ prs = << >>
    /\ nEvents = 0
    /\ ev = NoEvent
    /\ contributorsMap = << >>
    /\ reviewersMap = << >>
    /\ contributorsArray \in ProfileArrays(MaxContributors) \cup CrowdArrays(MaxCrowd)
    /\ IsSortedByContributions(contributorsArray)

\* Lines 696-738.
Weigh ==
    /\ phase = "weigh"
    /\ contributorsArray' = WithWeightedScores(contributorsArray)
    /\ phase' = "percent"
    /\ UNCHANGED << prs, nEvents, ev, contributorsMap, reviewersMap >>

\* Lines 741-752.
Percent ==
    /\ phase = "percent"
    /\ IF RLess(RInt(0), TotalWeightedScore(contributorsArray))
       THEN /\ contributorsArray' = WithPercentages(contributorsArray)
            /\ phase' = "differentiate"
       ELSE /\ phase' = "done"
            /\ UNCHANGED contributorsArray
    /\ UNCHANGED << prs, nEvents, ev, contributorsMap, reviewersMap >>

\* Lines 754-768.
Differentiate ==
    /\ phase = "differentiate"
    /\ contributorsArray' = DifferentiateByPrs(contributorsArray)
    /\ phase' = "adjust"
    /\ UNCHANGED << prs, nEvents, ev, contributorsMap, reviewersMap >>

\* Lines 770-784.
Adjust ==
    /\ phase = "adjust"
    /\ contributorsArray' = AdjustHighest(contributorsArray)
    /\ phase' = "done"
    /\ UNCHANGED << prs, nEvents, ev, contributorsMap, reviewersMap >>

NextPct ==
    \/ Weigh
    \/ Percent
    \/ Differentiate
    \/ Adjust

SpecPct == InitPct /\ [][NextPct]_vars

(***************************************************************************)
(* Properties                                                              *)
(***************************************************************************)
AuthorsOf(list) ==
    { list[i].author.username : i \in 1..Len(list) }

PRsOf(username) ==
    SelectSeq(prs, LAMBDA p : p.author.username = username)

Usernames(seq) ==
    { seq[i].username : i \in 1..Len(seq) }

\* C1: for every non-empty result the percentages of all scorecards sum to
\* exactly 100, whichever of the weighted result, the PR-share fallback and
\* the drift correction was applied.
C1_PercentagesSumTo100 ==
    (phase = "done" /\ Len(contributorsArray) > 0)
        => PercentageSum(contributorsArray) = 100

\* C1 witness: a finished distribution over three contributors in which the
\* rounded percentages did not sum to 100 before the correction.
C1_Witness ==
    /\ phase = "done"
    /\ Len(contributorsArray) = 3
    /\ PercentageSum(DifferentiateByPrs(WithPercentages(contributorsArray))) # 100
    /\ PercentageSum(contributorsArray) = 100

\* C2: every returned scorecard's percentage is an integer in [0,100], for
\* any number of contributors, also after the drift correction.
C2_PercentagesInRange ==
    phase = "done" =>
        \A i \in 1..Len(contributorsArray) :
            /\ contributorsArray[i].doraPercentage >= 0
            /\ contributorsArray[i].doraPercentage <= 100

\* C3, state part: no bot username has a scorecard or a reviewer entry.
C3_NoBotRecorded ==
    \A u \in BotUsernames :
        /\ u \notin Usernames(contributorsMap)
        /\ u \notin Usernames(contributorsArray)
        /\ u \notin DOMAIN reviewersMap
        /\ \A k \in DOMAIN reviewersMap : u \notin Usernames(reviewersMap[k])
        /\ \A i \in 1..Len(contributorsMap) :
              u \notin Usernames(contributorsMap[i].reviewersList)
        /\ \A i \in 1..Len(contributorsArray) :
              u \notin Usernames(contributorsArray[i].reviewersList)

\* C3: a username matching a bot pattern never gets a scorecard and never
\* appears in a reviewers list, whether it occurs as PR author, deployment
\* actor, incident assignee or reviewer; folding an event of a bot leaves
\* every scorecard unchanged.
C3_BotExclusion ==
    /\ []C3_NoBotRecorded
    /\ [][(nEvents' = nEvents + 1 /\ ev'.who \in BotUsernames)
            => (contributorsMap' = contributorsMap /\ reviewersMap' = reviewersMap)]_vars

\* C3 witness: a PR of a bot, a PR of a human reviewed by a bot and a
\* deployment of a bot have all been folded.
C3_Witness ==
    /\ ev.kind = "deployment"
    /\ ev.who \in BotUsernames
    /\ \E i \in 1..Len(prs) : prs[i].author.username \in BotUsernames
    /\ \E i \in 1..Len(prs) :
          /\ prs[i].author.username = alice
          /\ \E k \in 1..Len(prs[i].reviewers) :
                prs[i].reviewers[k].username \in BotUsernames

\* C4: a deployment or incident whose actor/assignee authored no PR of the
\* input creates no scorecard and changes no counter; the PR list is folded
\* completely before the first deployment or incident.
C4_GatedOnAuthors ==
    [][(nEvents' = nEvents + 1 /\ ev'.kind \in {"deployment", "incident"})
        => /\ prs' = prs
           /\ phase' # "prs"
           /\ (ev'.who \notin AuthorsOf(prs) => contributorsMap' = contributorsMap)]_vars

\* C4 witness: a deployment of bob has been folded while bob authored no PR
\* and alice has a scorecard.
C4_Witness ==
    /\ ev.kind = "deployment"
    /\ ev.who = bob
    /\ bob \notin AuthorsOf(prs)
    /\ alice \in Usernames(contributorsMap)

\* C5 as stated: the result is ordered by commitCount descending and, among
\* equal commitCount, by prCount descending.
C5_SortedByCommitsThenPrs ==
    phase = "done" =>
        \A i \in 1..(Len(contributorsArray) - 1) :
            LET a == contributorsArray[i]
                b == contributorsArray[i + 1]
            IN  \/ a.contributions > b.contributions
                \/ (a.contributions = b.contributions /\ a.prs >= b.prs)

\* C5 amended: the result is ordered by commitCount descending; prCount
\* plays no part in the order.
C5_SortedByCommits ==
    phase = "done" =>
        \A i \in 1..(Len(contributorsArray) - 1) :
            contributorsArray[i].contributions >= contributorsArray[i + 1].contributions

\* C5 witness: a result of two contributors that the sort has reordered.
C5_Witness ==
    /\ phase = "done"
    /\ Len(contributorsArray) = 2
    /\ contributorsArray[1].contributions > contributorsArray[2].contributions
    /\ contributorsMap[1].username = contributorsArray[2].username

MeanOf(values) ==
    Rat(SeqSum(values), Len(values))

LeadTimesOf(username) ==
    LET mine == PRsOf(username) IN [k \in 1..Len(mine) |-> mine[k].lead_time]

MergeTimesOf(username) ==
    LET mine == PRsOf(username) IN [k \in 1..Len(mine) |-> mine[k].merge_time]

ReworkTimesOf(username) ==
    LET mine == PRsOf(username) IN [k \in 1..Len(mine) |-> mine[k].rework_time]

AllCarry(values) ==
    \A k \in 1..Len(values) : values[k] # 0

\* C6: when every PR of a contributor folded so far carries a lead time, the
\* contributor's average is the arithmetic mean of those lead times (10, 20,
\* 30 give 10, 15, 20); the same for merge time and rework time.
C6_MeanOfAllPRs ==
    \A i \in 1..Len(contributorsMap) :
        LET c == contributorsMap[i]
        IN  /\ AllCarry(LeadTimesOf(c.username))
                => c.leadTime = MeanOf(LeadTimesOf(c.username))
            /\ AllCarry(MergeTimesOf(c.username))
                => c.mergeTime = MeanOf(MergeTimesOf(c.username))
            /\ AllCarry(ReworkTimesOf(c.username))
                => c.reworkTime = MeanOf(ReworkTimesOf(c.username))

\* C6 witness: alice's PRs with lead times 10, 20 and 30 are folded and her
\* average lead time is 20.
C6_Witness ==
    /\ LeadTimesOf(alice) = << 10, 20, 30 >>
    /\ MapHas(contributorsMap, alice)
    /\ MapGet(contributorsMap, alice).leadTime = RInt(20)

Carrying(values) ==
    SelectSeq(values, LAMBDA v : v # 0)

\* No PR lacking the metric precedes a PR carrying it.
CarryingFirst(values) ==
    \A j, k \in 1..Len(values) : (j < k /\ values[j] = 0) => values[k] = 0

MeanOverCarrying(mean, values) ==
    IF Carrying(values) = << >> THEN ~Truthy(mean)
    ELSE mean = MeanOf(Carrying(values))

\* C7 as stated: each average is the mean of the metric over the
\* contributor's PRs that carried it, and absent when none carried it.
C7_MeanOverCarryingPRs ==
    \A i \in 1..Len(contributorsMap) :
        LET c == contributorsMap[i]
        IN  /\ MeanOverCarrying(c.leadTime, LeadTimesOf(c.username))
            /\ MeanOverCarrying(c.mergeTime, MergeTimesOf(c.username))
            /\ MeanOverCarrying(c.reworkTime, ReworkTimesOf(c.username))

MeanOverLeadingCarrying(mean, values) ==
    /\ Carrying(values) = << >> => mean = RInt(0)
    /\ (Carrying(values) # << >> /\ CarryingFirst(values))
          => mean = MeanOf(Carrying(values))

\* C7 amended: each average is 0 when none of the contributor's PRs carried
\* the metric, and is the mean over the PRs that carried it when no PR
\* lacking the metric was folded before one carrying it.
C7_MeanOverLeadingCarryingPRs ==
    \A i \in 1..Len(contributorsMap) :
        LET c == contributorsMap[i]
        IN  /\ MeanOverLeadingCarrying(c.leadTime, LeadTimesOf(c.username))
            /\ MeanOverLeadingCarrying(c.mergeTime, MergeTimesOf(c.username))
            /\ MeanOverLeadingCarrying(c.reworkTime, ReworkTimesOf(c.username))

\* C7 witness: alice's first PR carried a lead time of 10, her second none,
\* and her average is still 10.
C7_Witness ==
    /\ LeadTimesOf(alice) = << 10, 0 >>
    /\ MapHas(contributorsMap, alice)
    /\ MapGet(contributorsMap, alice).leadTime = RInt(10)

\* C8: a raw score above 85 gives a doraScore in [85,94], a raw score below
\* 35 one in [35,44], and a raw score in [35,85] is kept whatever is drawn.
C8_BellCurveBands ==
    phase = "scored" =>
        LET c == contributorsMap[1]
            raw == RawScore(c)
        IN  /\ raw > 85 => (c.doraScore >= 85 /\ c.doraScore <= 94)
            /\ raw < 35 => (c.doraScore >= 35 /\ c.doraScore <= 44)
            /\ (raw >= 35 /\ raw <= 85) => c.doraScore = raw

\* C8 witness: a contributor with raw score 88 has been given the score 94.
C8_Witness ==
    /\ phase = "scored"
    /\ RawScore(contributorsMap[1]) = 88
    /\ contributorsMap[1].doraScore = 94

NoSubMetric(c) ==
    c.deploymentCount = 0 /\ ~Truthy(c.leadTime)

HasNumericScore(c) ==
    "doraScore" \in DOMAIN c /\ c.doraScore \in Int

\* C9 as stated: a contributor without any sub-metric has doraScore undefined,
\* not a number; every doraScore that is defined is an integer in [35,94].
C9_UndefinedWithoutData ==
    phase = "scored" =>
        LET c == contributorsMap[1]
        IN  /\ NoSubMetric(c) => ~HasNumericScore(c)
            /\ HasNumericScore(c) => c.doraScore \in 35..94

\* C9 amended: a contributor without any sub-metric has raw score 0 and gets
\* a doraScore drawn from [35,44]; every doraScore is an integer in [35,94].
C9_FlooredWithoutData ==
    phase = "scored" =>
        LET c == contributorsMap[1]
        IN  /\ NoSubMetric(c) => (RawScore(c) = 0 /\ c.doraScore \in 35..44)
            /\ c.doraScore \in 35..94

\* C9 witness: a contributor without deployments and lead time scored 44.
C9_Witness ==
    /\ phase = "scored"
    /\ NoSubMetric(contributorsMap[1])
    /\ contributorsMap[1].doraScore = 44

ExpectedUsernames ==
    { u \in AuthorsOf(prs) : u # NoUsername /\ u \notin BotUsernames }

\* C10: the result holds exactly one scorecard for each distinct non-bot
\* username that authored a PR, none for any other username and none twice.
C10_OneScorecardPerAuthor ==
    phase = "done" =>
        /\ Usernames(contributorsArray) = ExpectedUsernames
        /\ Len(contributorsArray) = Cardinality(ExpectedUsernames)

\* C10 witness: alice authored two PRs, a bot a third, and the result holds
\* the single scorecard of alice.
C10_Witness ==
    /\ phase = "done"
    /\ Len(PRsOf(alice)) = 2
    /\ \E i \in 1..Len(prs) : prs[i].author.username \in BotUsernames
    /\ Len(contributorsArray) = 1
    /\ contributorsArray[1].username = alice

FieldSum(list, field) ==
    SeqSum([k \in 1..Len(list) |-> list[k][field]])

CountersMatchPRs(c) ==
    LET mine == PRsOf(c.username)
    IN  /\ c.prs = Len(mine)
        /\ c.contributions = FieldSum(mine, "commits")
        /\ c.additions = FieldSum(mine, "additions")
        /\ c.deletions = FieldSum(mine, "deletions")
        /\ c.commentCount = FieldSum(mine, "comments")
        /\ c.changeCycles = FieldSum(mine, "rework_cycles")

\* C11: for every scorecard, prCount is the number of input PRs authored by
\* that username, and commitCount, additions, deletions, commentCount and
\* reworkCycleCount are the sums of the fields over exactly those PRs, a
\* missing field counting as 0.
C11_CountersAreSums ==
    /\ \A i \in 1..Len(contributorsMap) : CountersMatchPRs(contributorsMap[i])
    /\ \A i \in 1..Len(contributorsArray) : CountersMatchPRs(contributorsArray[i])

\* C11 witness: the result holds alice with three PRs of 2, 1 and 0 commits
\* (the last without any size field) and commitCount 3.
C11_Witness ==
    /\ phase = "done"
    /\ Len(PRsOf(alice)) = 3
    /\ \E k \in 1..3 : PRsOf(alice)[k].commits = 0 /\ PRsOf(alice)[k].additions = 0
    /\ \E k \in 1..3 : PRsOf(alice)[k].commits = 2
    /\ \E i \in 1..Len(contributorsArray) :
          /\ contributorsArray[i].username = alice
          /\ contributorsArray[i].contributions = 3
          /\ contributorsArray[i].deletions = 34

\* 100 * weightedScore_i / sum of the weighted scores, before rounding.
ShareOf(arr, i) ==
    RMul(RDiv(arr[i].weightedDoraScore,
              RSum([k \in 1..Len(arr) |-> arr[k].weightedDoraScore])),
         RInt(100))

\* The all-equal-percentage fallback triggers when the rounded shares agree.
FallbackTriggers(arr) ==
    \A i \in 1..Len(arr) : MathRound(ShareOf(arr, i)) = MathRound(ShareOf(arr, 1))

\* A result of exactly two contributors, a with the strictly greater
\* weighted score, for which the fallback did not trigger.
TwoWithGreater(a, b) ==
    /\ phase = "done"
    /\ Len(contributorsArray) = 2
    /\ {a, b} = {1, 2}
    /\ RLess(contributorsArray[b].weightedDoraScore, contributorsArray[a].weightedDoraScore)
    /\ ~FallbackTriggers(contributorsArray)

\* C12 as stated: of two contributors, the one with the strictly greater
\* weighted score ends with the strictly greater percentage when the
\* fallback does not trigger, and the two percentages sum to 100.
C12_GreaterScoreGreaterPercentage ==
    \A a, b \in {1, 2} :
        TwoWithGreater(a, b) =>
            /\ contributorsArray[a].doraPercentage > contributorsArray[b].doraPercentage
            /\ contributorsArray[a].doraPercentage + contributorsArray[b].doraPercentage = 100

\* C12 amended: the one with the strictly greater weighted score ends with a
\* percentage at least as great, and strictly greater unless its share is
\* exactly 50.5 (rounded 51 and 50, corrected to 50 and 50); the two sum to 100.
C12_GreaterScoreNoSmallerPercentage ==
    \A a, b \in {1, 2} :
        TwoWithGreater(a, b) =>
            /\ contributorsArray[a].doraPercentage >= contributorsArray[b].doraPercentage
            /\ (ShareOf(contributorsArray, a) # Rat(101, 2))
                  => contributorsArray[a].doraPercentage > contributorsArray[b].doraPercentage
            /\ contributorsArray[a].doraPercentage + contributorsArray[b].doraPercentage = 100

\* C12 witness: 3 PRs with 12 commits against 1 PR with 2 commits, the first
\* with the greater percentage.
C12_Witness ==
    /\ TwoWithGreater(1, 2)
    /\ contributorsArray[1].prs = 3 /\ contributorsArray[1].contributions = 12
    /\ contributorsArray[2].prs = 1 /\ contributorsArray[2].contributions = 2
    /\ contributorsArray[1].doraPercentage > contributorsArray[2].doraPercentage
    /\ contributorsArray[1].doraPercentage + contributorsArray[2].doraPercentage = 100

\* The aggregation of the folded maps with every random draw equal to 0.
RunWithZeroDraws ==
    Distribute(SortByContributions(
        [i \in 1..Len(contributorsMap) |->
            ScoreContributor(contributorsMap, reviewersMap, contributorsMap[i], 0)]))

Clamped(c) ==
    RawScore(c) > 85 \/ RawScore(c) < 35

\* The result with the doraScore of every clamped contributor blanked.
ExceptClampedScores(arr) ==
    [i \in 1..Len(arr) |->
        IF Clamped(arr[i]) THEN [arr[i] EXCEPT !.doraScore = 0] ELSE arr[i]]

\* C13: two aggregations of the same inputs return the same contributors in
\* the same order with the same value of every field, whatever is drawn,
\* except for the doraScore of a contributor whose raw score is above 85 or
\* below 35: every result of the aggregation agrees in this way with the
\* result of the run whose draws are all 0, hence with every other result.
C13_SameExceptClampedScores ==
    [][phase' = "done"
        => ExceptClampedScores(contributorsArray') = ExceptClampedScores(RunWithZeroDraws)]_vars

\* C13 witness: a result of two contributors in which the first, with a raw
\* score below 35, drew 4 and so differs from the run that draws 0.
C13_Witness ==
    /\ phase = "done"
    /\ Len(contributorsArray) = 2
    /\ Clamped(contributorsArray[1])
    /\ contributorsArray[1].doraScore = 39
    /\ ~Clamped(contributorsArray[2])

RECURSIVE Concat(_)
Concat(seqs) ==
    IF seqs = << >> THEN << >> ELSE Head(seqs) \o Concat(Tail(seqs))

\* The reviewer usernames on the PRs of username, in the order listed.
ListedOn(username) ==
    LET mine == PRsOf(username)
    IN  Concat([k \in 1..Len(mine) |->
                   [j \in 1..Len(mine[k].reviewers) |-> mine[k].reviewers[j].username]])

\* The usernames that can be reviewers of username: listed, present, no bot.
ReviewersOn(username) ==
    LET listed == ListedOn(username)
    IN  { listed[j] : j \in 1..Len(listed) } \ ({NoUsername} \cup BotUsernames)

\* The number of PRs of username that list reviewer.
ReviewCount(username, reviewer) ==
    LET mine == PRsOf(username)
    IN  Cardinality({ k \in 1..Len(mine) :
                        \E j \in 1..Len(mine[k].reviewers) :
                            mine[k].reviewers[j].username = reviewer })

FirstSeen(username, reviewer) ==
    LET listed == ListedOn(username)
    IN  CHOOSE j \in 1..Len(listed) :
            /\ listed[j] = reviewer
            /\ \A h \in 1..(j - 1) : listed[h] # reviewer

\* a ranks before b: more reviews, or as many and seen first.
RanksBefore(count, first, a, b) ==
    \/ count[a] > count[b]
    \/ (count[a] = count[b] /\ first[a] < first[b])

TopReviewersOk(c) ==
    LET list == c.reviewersList
        all == ReviewersOn(c.username)
        count == [r \in all |-> ReviewCount(c.username, r)]
        first == [r \in all |-> FirstSeen(c.username, r)]
    IN  /\ Len(list) <= 5
        /\ Len(list) = (IF Cardinality(all) < 5 THEN Cardinality(all) ELSE 5)
        /\ \A i \in 1..Len(list) :
              /\ list[i].username \in all
              /\ list[i].count = count[list[i].username]
        /\ \A i, j \in 1..Len(list) :
              i < j => RanksBefore(count, first, list[i].username, list[j].username)
        /\ \A r \in all \ Usernames(list) :
              \A i \in 1..Len(list) : RanksBefore(count, first, list[i].username, r)

TimeMetrics ==
    { << "leadTime", "lead_time" >>,
      << "mergeTime", "merge_time" >>,
      << "reworkTime", "rework_time" >> }

\* The step folds a PR that is counted: its author is present and no bot.
FoldsCountedPR ==
    /\ nEvents' = nEvents + 1
    /\ ev'.kind = "pr"
    /\ ev'.who # NoUsername
    /\ ev'.who \notin BotUsernames

\* The value of a field of the author's scorecard before the step, 0 when
\* the step creates the scorecard.
Before(field) ==
    IF MapHas(contributorsMap, ev'.who)
    THEN MapGet(contributorsMap, ev'.who)[field]
    ELSE IF field = "prs" THEN 0 ELSE RInt(0)

\* The number of PRs of username in list.
PRCountIn(list, username) ==
    Len(SelectSeq(list, LAMBDA p : p.author.username = username))

\* C15: when a PR carrying a time metric is folded, the new mean is
\* (oldMean * (n - 1) + newValue) / n, n being the contributor's own PR count
\* after the increment for this PR (PRs that lacked the metric included) and
\* oldMean 0 before the metric first appears.
C15_Recurrence ==
    [][FoldsCountedPR =>
        LET pr == prs'[Len(prs')]
            c == MapGet(contributorsMap', ev'.who)
            n == PRCountIn(prs', ev'.who)
        IN  \A m \in TimeMetrics :
                pr[m[2]] # 0 =>
                    c[m[1]] = RDiv(RAdd(RMul(Before(m[1]), RInt(n - 1)), RInt(pr[m[2]])),
                                   RInt(n))]_vars

\* C15 witness: after a PR of bob, alice's PR without lead time and her PR
\* with lead time 20 give her the mean (0 * 1 + 20) / 2 = 10.
C15_Witness ==
    /\ Len(prs) = 3
    /\ prs[1].author.username = bob
    /\ LeadTimesOf(alice) = << 0, 20 >>
    /\ ev.kind = "pr"
    /\ MapGet(contributorsMap, alice).leadTime = RInt(10)
    /\ MapGet(contributorsMap, alice).reworkTime = RInt(3)

\* C16: folding a PR that lacks a time metric leaves the contributor's mean
\* of that metric as it was and still increments prCount, the divisor of
\* every later update of the mean.
C16_MissingMetricKeepsMean ==
    [][FoldsCountedPR =>
        LET pr == prs'[Len(prs')]
            c == MapGet(contributorsMap', ev'.who)
        IN  /\ c.prs = Before("prs") + 1
            /\ c.prs = PRCountIn(prs', ev'.who)
            /\ \A m \in TimeMetrics :
                    pr[m[2]] = 0 => c[m[1]] = Before(m[1])]_vars

\* C16 witness: alice's mean lead time of 15 over two PRs was kept by her
\* third PR, which has no lead time, while her prCount went to 3.
C16_Witness ==
    /\ LeadTimesOf(alice) = << 10, 20, 0 >>
    /\ ev.kind = "pr"
    /\ MapGet(contributorsMap, alice).leadTime = RInt(15)
    /\ MapGet(contributorsMap, alice).prs = 3

\* Every scorecard has at least one PR and finite means (a non-zero divisor).
DivisorsNonZero ==
    \A i \in 1..Len(contributorsMap) :
        /\ contributorsMap[i].prs >= 1
        /\ \A m \in TimeMetrics : contributorsMap[i][m[1]].d > 0

\* C17: the running-mean update never divides by zero: whenever a time
\* metric is folded the contributor's PR count, the divisor, has already
\* been incremented and is at least 1.
C17_NoDivisionByZero ==
    /\ []DivisorsNonZero
    /\ [][FoldsCountedPR =>
            LET c == MapGet(contributorsMap', ev'.who)
            IN  /\ c.prs = PRCountIn(prs, ev'.who) + 1
                /\ c.prs >= 1
                /\ \A m \in TimeMetrics : c[m[1]].d > 0]_vars

\* C17 witness: the first PR of a contributor carried a lead time and gave a
\* mean equal to it, divided by 1.
C17_Witness ==
    /\ Len(prs) = 1
    /\ ev.kind = "pr"
    /\ prs[1].lead_time = 30
    /\ MapHas(contributorsMap, alice)
    /\ MapGet(contributorsMap, alice).prs = 1
    /\ MapGet(contributorsMap, alice).leadTime = RInt(30)

\* C18: a PR's own author listed among its reviewers is not counted: no
\* contributor's reviewer counts or topReviewers hold an entry for the
\* contributor's own username.
C18_AuthorNotOwnReviewer ==
    /\ \A u \in DOMAIN reviewersMap : u \notin Usernames(reviewersMap[u])
    /\ \A i \in 1..Len(contributorsMap) :
          contributorsMap[i].username \notin Usernames(contributorsMap[i].reviewersList)
    /\ \A i \in 1..Len(contributorsArray) :
          contributorsArray[i].username \notin Usernames(contributorsArray[i].reviewersList)

Counters ==
    { "prs", "contributions", "additions", "deletions", "commentCount", "changeCycles",
      "deploymentCount", "successfulDeployments", "failedDeployments", "incidentCount" }

\* C19: while events are folded one at a time, no counter of any scorecard
\* decreases from one step to the next, and no scorecard disappears.
C19_CountersNeverDecrease ==
    [][\A i \in 1..Len(contributorsMap) :
          /\ i <= Len(contributorsMap')
          /\ contributorsMap'[i].username = contributorsMap[i].username
          /\ \A f \in Counters : contributorsMap'[i][f] >= contributorsMap[i][f]]_vars

\* C19 witness: alice's scorecard after a PR of 2 commits, a failed
\* deployment and an incident, each fold having raised its counters.
C19_Witness ==
    /\ ev.kind = "incident"
    /\ ev.who = alice
    /\ Len(contributorsMap) = 1
    /\ contributorsMap[1].prs = 1
    /\ contributorsMap[1].contributions = 2
    /\ contributorsMap[1].deploymentCount = 1
    /\ contributorsMap[1].failedDeployments = 1
    /\ contributorsMap[1].successfulDeployments = 0
    /\ contributorsMap[1].incidentCount = 1

\* The bands as stated, on integers: deployments in the window (count / 4 a
\* week), minutes of lead time, failed and all deployments.
StatedFrequencyBand(deployments) ==
    IF deployments >= 7 * 4 THEN 100
    ELSE IF deployments >= 1 * 4 THEN 75
    ELSE IF 4 * deployments >= 1 * 4 THEN 50
    ELSE 25

StatedLeadTimeBand(minutes) ==
    IF minutes.n < 24 * 60 * minutes.d THEN 100
    ELSE IF minutes.n < 168 * 60 * minutes.d THEN 75
    ELSE IF minutes.n < 720 * 60 * minutes.d THEN 50
    ELSE 25

StatedFailureRateBand(failed, deployments) ==
    IF 100 * failed < 15 * deployments THEN 100
    ELSE IF 100 * failed < 30 * deployments THEN 75
    ELSE IF 100 * failed < 45 * deployments THEN 50
    ELSE 25

StatedRestoreBand(minutes) ==
    IF minutes.n < 1 * 60 * minutes.d THEN 100
    ELSE IF minutes.n < 24 * 60 * minutes.d THEN 75
    ELSE IF minutes.n < 168 * 60 * minutes.d THEN 50
    ELSE 25

\* The band points of the sub-metrics of c that have data.
StatedPoints(c) ==
    (IF c.deploymentCount > 0
     THEN << StatedFrequencyBand(c.deploymentCount),
             StatedFailureRateBand(c.failedDeployments, c.deploymentCount) >>
     ELSE << >>)
    \o (IF c.leadTime.n # 0 THEN << StatedLeadTimeBand(c.leadTime) >> ELSE << >>)
    \o (IF c.incidentCount > 0 /\ c.leadTime.n # 0
        THEN << StatedRestoreBand(c.leadTime) >> ELSE << >>)

\* round((sum of the points + 40) / (number of points + 1))
StatedRawScore(c) ==
    LET k == Len(StatedPoints(c))
    IN  (2 * (SeqSum(StatedPoints(c)) + 40) + (k + 1)) \div (2 * (k + 1))

RoundHalfUp(x) ==
    (2 * x.n + x.d) \div (2 * x.d)

\* max(0, 10 - min(168, leadTimeHours) / 24), the lead time given in minutes.
StatedSpeedScore(minutes) ==
    LET hours == RDiv(minutes, RInt(60))
        capped == IF RLess(RInt(168), hours) THEN RInt(168) ELSE hours
        score == RSub(RInt(10), RDiv(capped, RInt(24)))
    IN  IF RLess(score, RInt(0)) THEN RInt(0) ELSE score

\* The weighted score as stated.
StatedWeightedScore(c) ==
    LET changes == c.additions + c.deletions
        terms ==
            << RMul(Rat(35, 100), RInt(c.prs)),
               RMul(Rat(20, 100), RInt(c.contributions)),
               RMul(Rat(15, 100), Rat(IF changes < 5000 THEN changes ELSE 5000, 100)),
               RMul(RMul(Rat(20, 100),
                         Rat(c.successfulDeployments,
                             IF c.deploymentCount > 1 THEN c.deploymentCount ELSE 1)),
                    RInt(100)),
               RMul(Rat(10, 100),
                    IF c.leadTime.n # 0 THEN StatedSpeedScore(c.leadTime) ELSE RInt(0)) >>
    IN  RSum(terms)

\* C21: the weighted score of every contributor is 0.35 prCount + 0.20
\* commitCount + 0.15 (min(5000, additions + deletions) / 100) + 0.20
\* (successfulDeployments / max(1, deploymentCount)) 100 + 0.10 speedScore,
\* and each percentage before the fallback and the correction is
\* round(100 weightedScore / sum of the weighted scores).
C21_WeightedScoreFormula ==
    /\ phase \in {"percent", "differentiate", "adjust", "done"} =>
          \A i \in 1..Len(contributorsArray) :
              contributorsArray[i].weightedDoraScore
                  = StatedWeightedScore(contributorsArray[i])
    /\ phase = "differentiate" =>
          \A i \in 1..Len(contributorsArray) :
              contributorsArray[i].doraPercentage
                  = RoundHalfUp(RDiv(RMul(RInt(100), StatedWeightedScore(contributorsArray[i])),
                                     RSum([k \in 1..Len(contributorsArray) |->
                                              StatedWeightedScore(contributorsArray[k])])))

\* C21 witness: a contributor with 6000 changed lines (7.85) and one with a
\* successful deployment and a mean lead time of 100 hours (20.9333...) have
\* the percentages 27 and 73 before the fallback and the correction.
C21_Witness ==
    /\ phase = "differentiate"
    /\ Len(contributorsArray) = 2
    /\ contributorsArray[1].additions = 6000
    /\ contributorsArray[1].weightedDoraScore = Rat(785, 100)
    /\ contributorsArray[2].leadTime = RInt(6000)
    /\ contributorsArray[2].successfulDeployments = 1
    /\ contributorsArray[1].doraPercentage = 27
    /\ contributorsArray[2].doraPercentage = 73

Percentages(arr) ==
    [i \in 1..Len(arr) |-> arr[i].doraPercentage]

\* round(100 * weightedScore_i / sum of the weighted scores) of everyone.
RoundedShares(arr) ==
    [i \in 1..Len(arr) |-> RoundHalfUp(ShareOf(arr, i))]

\* round(100 * prCount_i / sum of prCount) of everyone.
RoundedPRShares(arr) ==
    [i \in 1..Len(arr) |->
        RoundHalfUp(Rat(100 * arr[i].prs, SeqSum([k \in 1..Len(arr) |-> arr[k].prs])))]

AllEqual(values) ==
    \A i \in 1..Len(values) : values[i] = values[1]

\* C22: when the rounded weighted shares of at least 2 contributors are all
\* the same, every percentage is replaced by round(100 prCount / sum of
\* prCount) before the drift correction; otherwise the weighted percentages
\* are kept.
C22_FallbackToPRShare ==
    phase = "adjust" =>
        Percentages(contributorsArray) =
            (IF AllEqual(RoundedShares(contributorsArray)) /\ Len(contributorsArray) >= 2
             THEN RoundedPRShares(contributorsArray)
             ELSE RoundedShares(contributorsArray))

\* C22 witness: weighted shares of 50 and 50 replaced by the PR shares 33
\* and 67 of a contributor with 1 PR and one with 2.
C22_Witness ==
    /\ phase = "adjust"
    /\ RoundedShares(contributorsArray) = << 50, 50 >>
    /\ contributorsArray[1].prs = 1
    /\ contributorsArray[2].prs = 2
    /\ Percentages(contributorsArray) = << 33, 67 >>

\* The earliest contributor with the highest percentage.
EarliestHighest(values) ==
    CHOOSE i \in 1..Len(values) :
        /\ \A j \in 1..Len(values) : values[j] <= values[i]
        /\ \A j \in 1..(i - 1) : values[j] < values[i]

\* C23: when the percentages do not sum to 100 the drift correction adds
\* 100 - sum to exactly one contributor, the earliest in the list of those
\* with the highest percentage, and changes no other percentage; when they
\* sum to 100 it changes none.
C23_DriftCorrection ==
    [][(phase = "adjust" /\ phase' = "done") =>
        LET before == Percentages(contributorsArray)
            after == Percentages(contributorsArray')
            sum == SeqSum(before)
        IN  IF sum = 100 THEN after = before
            ELSE after = [before EXCEPT ![EarliestHighest(before)] = @ + (100 - sum)]]_vars

\* C23 witness: three equal contributors with 33 each, the first corrected
\* to 34.
C23_Witness ==
    /\ phase = "done"
    /\ Len(contributorsArray) = 3
    /\ AllEqual([i \in 1..3 |-> contributorsArray[i].weightedDoraScore])
    /\ Percentages(contributorsArray) = << 34, 33, 33 >>

\* C25: an event whose identity field is missing or empty is skipped: it
\* creates no scorecard and leaves every scorecard and reviewer count as it
\* was, and the events after it are still folded, every scorecard counting
\* all PRs of its username.
C25_MalformedEventSkipped ==
    /\ [](/\ NoUsername \notin Usernames(contributorsMap)
          /\ NoUsername \notin DOMAIN reviewersMap
          /\ \A i \in 1..Len(contributorsMap) :
                contributorsMap[i].prs = PRCountIn(prs, contributorsMap[i].username))
    /\ [][(nEvents' = nEvents + 1 /\ ev'.who = NoUsername)
            => (contributorsMap' = contributorsMap /\ reviewersMap' = reviewersMap)]_vars

\* C25 witness: a PR without author username was folded first, a PR of
\* alice second and a deployment without actor third; alice has her scorecard.
C25_Witness ==
    /\ Len(prs) = 2
    /\ prs[1].author.username = NoUsername
    /\ prs[2].author.username = alice
    /\ ev.kind = "deployment"
    /\ ev.who = NoUsername
    /\ Usernames(contributorsMap) = {alice}
    /\ contributorsMap[1].prs = 1
    /\ contributorsMap[1].deploymentCount = 0

DeploymentsBalanced(c) ==
    /\ c.deploymentCount = c.successfulDeployments + c.failedDeployments
    /\ c.successfulDeployments >= 0
    /\ c.failedDeployments >= 0

\* C26: in every state of the folds and in the result each scorecard has
\* deploymentCount = successfulDeployments + failedDeployments, every status
\* other than 'success' being counted as failed, and the change failure
\* rate of the result, failedDeployments / max(1, deploymentCount), lies in
\* [0,1].
C26_DeploymentsBalanced ==
    /\ \A i \in 1..Len(contributorsMap) : DeploymentsBalanced(contributorsMap[i])
    /\ \A i \in 1..Len(contributorsArray) :
          LET c == contributorsArray[i]
          IN  /\ DeploymentsBalanced(c)
              /\ c.changeFailureRate.d > 0
              /\ c.changeFailureRate.n >= 0
              /\ c.changeFailureRate.n <= c.changeFailureRate.d
              /\ c.changeFailureRate.n * (IF c.deploymentCount > 1 THEN c.deploymentCount ELSE 1)
                    = c.failedDeployments * c.changeFailureRate.d

\* C26 witness: the result holds alice with one successful and one other
\* deployment and the change failure rate 1/2.
C26_Witness ==
    /\ phase = "done"
    /\ Len(contributorsArray) = 1
    /\ contributorsArray[1].deploymentCount = 2
    /\ contributorsArray[1].successfulDeployments = 1
    /\ contributorsArray[1].failedDeployments = 1
    /\ contributorsArray[1].changeFailureRate = Rat(1, 2)

\* C27: every scorecard has prCount >= 1, hence a weighted score of at least
\* 0.35; the sum of the weighted scores of a non-empty result is positive
\* and every returned scorecard has a percentage.
C27_PositiveWeights ==
    /\ \A i \in 1..Len(contributorsMap) : contributorsMap[i].prs >= 1
    /\ phase = "done" =>
          /\ \A i \in 1..Len(contributorsArray) :
                LET c == contributorsArray[i]
                IN  /\ c.prs >= 1
                    /\ "weightedDoraScore" \in DOMAIN c
                    /\ RLeq(Rat(35, 100), c.weightedDoraScore)
                    /\ "doraPercentage" \in DOMAIN c
                    /\ c.doraPercentage \in Int
          /\ Len(contributorsArray) > 0
                => RLess(RInt(0), RSum([i \in 1..Len(contributorsArray) |->
                                          contributorsArray[i].weightedDoraScore]))

\* C27 witness: a result of one contributor with a single PR without
\* commits or changes and a lead time of 10 minutes: weighted score
\* 0.35 + 0.1 * (10 - 1/144), 100%.
C27_Witness ==
    /\ phase = "done"
    /\ Len(contributorsArray) = 1
    /\ contributorsArray[1].prs = 1
    /\ contributorsArray[1].contributions = 0
    /\ contributorsArray[1].weightedDoraScore = Rat(1943, 1440)
    /\ contributorsArray[1].doraPercentage = 100

\* All four sub-metrics have data and score 100 points each.
AllFourElite(c) ==
    /\ c.deploymentCount >= 28
    /\ 100 * c.failedDeployments < 15 * c.deploymentCount
    /\ c.incidentCount > 0
    /\ c.leadTime.n > 0
    /\ c.leadTime.n < 60 * c.leadTime.d

AllOrders ==
    [n \in 0..MaxEvents |->
        { p \in [1..n -> 1..n] : \A i, j \in 1..n : p[i] = p[j] => i = j }]

OrdersOf(n) ==
    AllOrders[n]

\* The scorecard after the PRs of list, all of one author, in this order.
RECURSIVE FoldInOrder(_, _)
FoldInOrder(c, list) ==
    IF list = << >> THEN c ELSE FoldInOrder(AddPR(c, Head(list)), Tail(list))

\* The scorecard of username after the PRs of mine folded in the order p.
ScorecardInOrder(username, mine, p) ==
    FoldInOrder(NewContributor(username, username),
                [k \in 1..Len(mine) |-> mine[p[k]]])

\* C29 as stated: the averages of a contributor do not depend on the order
\* of the contributor's PRs: every permutation of them gives the same
\* lead, merge and rework time averages.
C29_MeansOrderIndependent ==
    \A i \in 1..Len(contributorsMap) :
        LET c == contributorsMap[i]
            mine == PRsOf(c.username)
        IN  \A p \in OrdersOf(Len(mine)) :
                LET inOrder == ScorecardInOrder(c.username, mine, p)
                IN  \A m \in TimeMetrics : inOrder[m[1]] = c[m[1]]

\* Every PR of the list carries the metric, or none does.
AllOrNoneCarry(list, field) ==
    \/ \A k \in 1..Len(list) : list[k][field] # 0
    \/ \A k \in 1..Len(list) : list[k][field] = 0

\* C29 amended: an average of a contributor does not depend on the order of
\* the contributor's PRs when all of them carry the metric or none does.
\* The averages are those of the contributor's PRs folded in the given order,
\* in every state; the orders are compared in the states of the PR fold,
\* which every list of PRs reaches and after which no PR is folded.
C29_MeansOrderIndependentWhenAllCarry ==
    \A i \in 1..Len(contributorsMap) :
        LET c == contributorsMap[i]
            mine == PRsOf(c.username)
            given == ScorecardInOrder(c.username, mine, [k \in 1..Len(mine) |-> k])
            inOrder == [p \in OrdersOf(Len(mine)) |->
                           ScorecardInOrder(c.username, mine, p)]
        IN  \A m \in TimeMetrics :
                /\ c[m[1]] = given[m[1]]
                /\ (phase = "prs" /\ AllOrNoneCarry(mine, m[2])) =>
                       \A p \in OrdersOf(Len(mine)) : inOrder[p][m[1]] = given[m[1]]

\* C29 witness: alice's PRs with lead times 30, 10 and 20, in this order,
\* gave the average 20.
C29_Witness ==
    /\ LeadTimesOf(alice) = << 30, 10, 20 >>
    /\ MapHas(contributorsMap, alice)
    /\ MapGet(contributorsMap, alice).leadTime = RInt(20)

\* The final percentages are ordered as the weighted scores are.
OrderConsistent(arr) ==
    \A a, b \in 1..Len(arr) :
        RLeq(arr[b].weightedDoraScore, arr[a].weightedDoraScore)
            => arr[a].doraPercentage >= arr[b].doraPercentage

\* C30 as stated: in every result, a contributor whose weighted score is
\* greater than or equal to another's has a final percentage greater than
\* or equal to the other's, also when the PR-share fallback or the drift
\* correction is applied.
C30_OrderConsistent ==
    phase = "done" => OrderConsistent(contributorsArray)

\* Neither the PR-share fallback nor the drift correction is applied: the
\* rounded shares are not all equal (or there is one contributor) and sum
\* to 100.
PlainRounding(arr) ==
    /\ Len(arr) = 1 \/ ~AllEqual(RoundedShares(arr))
    /\ SeqSum(RoundedShares(arr)) = 100

\* C30 amended: the final percentages are order-consistent with the
\* weighted scores in every result to which neither the PR-share fallback
\* nor the drift correction is applied.
C30_OrderConsistentWhenPlain ==
    (phase = "done" /\ PlainRounding(contributorsArray))
        => OrderConsistent(contributorsArray)

\* C30 witness: three contributors with different weighted scores whose
\* rounded shares sum to 100 and are ordered as the scores are.
C30_Witness ==
    /\ phase = "done"
    /\ Len(contributorsArray) = 3
    /\ PlainRounding(contributorsArray)
    /\ RLess(contributorsArray[2].weightedDoraScore, contributorsArray[1].weightedDoraScore)
    /\ RLess(contributorsArray[3].weightedDoraScore, contributorsArray[2].weightedDoraScore)
    /\ contributorsArray[1].doraPercentage > contributorsArray[2].doraPercentage
    /\ contributorsArray[2].doraPercentage > contributorsArray[3].doraPercentage

=============================================================================
